---- MODULE Spec2Model ----
(***************************************************************************)
(* Whiff Watcher: the matchup aggregation and scoring pipeline.            *)
(*   src/mlb_api.py        MLBDataFetcher   (season-rate lookups)          *)
(*   src/data_processor.py DataProcessor    (matchup builder, filter)      *)
(*   src/predictor.py      StrikeoutPredictor (scoring)                    *)
(*   src/app.py            main             (the day's loop over games)    *)
(*                                                                         *)
(* Numbers.  The program computes in binary floating point; the model      *)
(* computes the same expressions in exact fixed point:                     *)
(*   - a strikeout rate (percent) is an integer number of 1/RateScale      *)
(*     percent, truncated;                                                 *)
(*   - a confidence score is an integer numerator over ConfDen;            *)
(*   - a probability is an integer numerator over ProbScale.               *)
(* A float that is NaN is the value NaN below; every other float is        *)
(* Num(v).                                                                 *)
(***************************************************************************)
EXTENDS Integers, Sequences, FiniteSets, TLC

VARIABLES
    games,          \* app.main: games_data, the day's schedule
    env,            \* what the fetcher's lookups answer (the collaborator)
    min_at_bats,    \* app.main: the sidebar's "Min At-Bats"
    threshold,      \* predict_strikeouts / filter: threshold argument
    pc,             \* position in the pipeline
    gi,             \* app.main: index of the next game of the loop
    per_game,       \* per game processed so far: game_matchups and the lookups made
    all_matchups,   \* app.main: all_matchups
    escaped,        \* TRUE when an exception left the handler that ran last
    matchups_df,    \* the DataFrame handed to the filter / the predictor
    filtered_df,    \* result of filter_high_strikeout_matchups
    predictions,    \* result of predict_strikeouts
    ranked,         \* result of rank_predictions
    call,           \* a single call under study: the function and its input
    ret             \* what that call returned

vars == <<games, env, min_at_bats, threshold, pc, gi, per_game, all_matchups,
          escaped, matchups_df, filtered_df, predictions, ranked, call, ret>>

----------------------------------------------------------------------------
(* Bounds of the model *)

\* longest schedule the day's loop walks
MaxGames == 2
\* at most this many lookups answer something other than a full healthy season
MaxIrregular == 1
\* longest DataFrame handed directly to the filter / the predictor
MaxRows == 3
\* most players one roster category lists
MaxRosterLen == 2

\* fixed-point resolution of a rate: 1/RateScale percent
RateScale == 10 * 10
\* fixed-point resolution of a probability
ProbScale == 10 * 100

----------------------------------------------------------------------------
(* Floats that may be NaN *)

NaN == [nan |-> TRUE, v |-> 0]
Num(x) == [nan |-> FALSE, v |-> x]

Min(a, b) == IF a <= b THEN a ELSE b
Max(a, b) == IF a >= b THEN a ELSE b

----------------------------------------------------------------------------
(* MLBDataFetcher: season statistics                                       *)

\* One season's answer of the stats endpoint: the request failed ("fail"),
\* it carried no splits ("empty"), or it carried a stat line.  "fail" stands
\* for everything that raises inside the try of the season's turn: the
\* request, raise_for_status, the JSON body, a float() of a field.
Fail == [kind |-> "fail", strikeouts |-> 0, sample |-> 0]
Empty == [kind |-> "empty", strikeouts |-> 0, sample |-> 0]
Stat(so, n) == [kind |-> "stat", strikeouts |-> so, sample |-> n]

\* so_rate = (strikeouts / sample) * 100, in 1/RateScale percent
SoRate(strikeouts, sample) == (strikeouts * 100 * RateScale) \div sample

\* Mutant of PitcherStatsFrom: only the season asked for is tried
PitcherStatsNoFallback(seasons, i) ==
    IF seasons[i].kind = "stat" /\ seasons[i].sample > 0
    THEN [so_rate |-> SoRate(seasons[i].strikeouts, seasons[i].sample),
          strikeouts |-> seasons[i].strikeouts,
          batters_faced |-> seasons[i].sample]
    ELSE [so_rate |-> 0, strikeouts |-> 0, batters_faced |-> 0]

\* get_pitcher_stats: seasons_to_try = [season, season - 1]; the first season
\* with batters_faced > 0 wins; a failed request is skipped (bare except).
RECURSIVE PitcherStatsFrom(_, _)
PitcherStatsFrom(seasons, i) ==
    IF i > Len(seasons)
    THEN [so_rate |-> 0, strikeouts |-> 0, batters_faced |-> 0]
    ELSE IF seasons[i].kind = "stat" /\ seasons[i].sample > 0
         THEN [so_rate |-> SoRate(seasons[i].strikeouts, seasons[i].sample),
               strikeouts |-> seasons[i].strikeouts,
               batters_faced |-> seasons[i].sample]
         ELSE PitcherStatsFrom(seasons, i + 1)

get_pitcher_stats(seasons) == PitcherStatsFrom(seasons, 1)

\* the seasons get_pitcher_stats sends a request for, from position i of
\* seasons_to_try on: the loop ends at the first `return` (line 132)
RECURSIVE PitcherSeasonsAsked(_, _)
PitcherSeasonsAsked(seasons, i) ==
    IF i > Len(seasons) THEN <<>>
    ELSE IF seasons[i].kind = "stat" /\ seasons[i].sample > 0
         THEN <<i>>
         ELSE <<i>> \o PitcherSeasonsAsked(seasons, i + 1)

\* get_batter_stats: the same walk over the hitting group, keyed at_bats.
RECURSIVE BatterStatsFrom(_, _)
BatterStatsFrom(seasons, i) ==
    IF i > Len(seasons)
    THEN [so_rate |-> 0, strikeouts |-> 0, at_bats |-> 0]
    ELSE IF seasons[i].kind = "stat" /\ seasons[i].sample > 0
         THEN [so_rate |-> SoRate(seasons[i].strikeouts, seasons[i].sample),
               strikeouts |-> seasons[i].strikeouts,
               at_bats |-> seasons[i].sample]
         ELSE BatterStatsFrom(seasons, i + 1)

get_batter_stats(seasons) == BatterStatsFrom(seasons, 1)

\* the seasons get_batter_stats sends a request for (the loop ends at the
\* `return` of line 225)
RECURSIVE BatterSeasonsAsked(_, _)
BatterSeasonsAsked(seasons, i) ==
    IF i > Len(seasons) THEN <<>>
    ELSE IF seasons[i].kind = "stat" /\ seasons[i].sample > 0
         THEN <<i>>
         ELSE <<i>> \o BatterSeasonsAsked(seasons, i + 1)

----------------------------------------------------------------------------
(* The collaborator as process_game_matchups sees it: `fetcher` is any      *)
(* object with the four lookups; a lookup answers or raises.               *)

Pitchers == {"P1", "P2"}
Batters == {"B1", "B2", "B3"}
Teams == {"T1", "T2"}

\* Python's None, and a value that is not None
None == <<>>
Some(x) == <<x>>

\* a lookup raises, or answers val
Raise == [kind |-> "raise", val |-> <<>>]
Ok(x) == [kind |-> "ok", val |-> x]

TeamIdOf == [t \in Teams |-> IF t = "T1" THEN "id-T1" ELSE "id-T2"]
TeamOfId(id) == CHOOSE t \in Teams : TeamIdOf[t] = id
RosterOf == [t \in Teams |-> IF t = "T2" THEN <<"B1", "B2">> ELSE <<"B3">>]

\* MLBDataFetcher.get_team_roster (mlb_api.py lines 144-189).  The roster
\* endpoint is asked once per roster type; an answer is Raise (the request or
\* the decoding of its body raised) or Ok(the players it lists).
roster_types == <<"active", "fullSeason", "40Man">>

\* Mutant of AddPlayers: a list, every non-pitcher listed is appended
RECURSIVE AddPlayersToList(_, _, _)
AddPlayersToList(all_batters, players, k) ==
    IF k > Len(players) THEN all_batters
    ELSE LET player == players[k]
         IN IF player.position.type # "Pitcher"
            THEN AddPlayersToList(Append(all_batters,
                                         [id |-> player.person.id,
                                          name |-> player.person.fullName,
                                          position |-> player.position.name]),
                                  players, k + 1)
            ELSE AddPlayersToList(all_batters, players, k + 1)

\* lines 163-172: the loop over one answer's players from position k on.
\* all_batters is the dict in its insertion order; an id it already has is
\* left as it is.
RECURSIVE AddPlayers(_, _, _)
AddPlayers(all_batters, players, k) ==
    IF k > Len(players) THEN all_batters
    ELSE LET player == players[k]
         IN IF /\ player.position.type # "Pitcher"
               /\ ~\E i \in 1..Len(all_batters) : all_batters[i].id = player.person.id
            THEN AddPlayers(Append(all_batters,
                                   [id |-> player.person.id,
                                    name |-> player.person.fullName,
                                    position |-> player.position.name]),
                            players, k + 1)
            ELSE AddPlayers(all_batters, players, k + 1)

\* lines 153-175: the loop over roster_types from type t on; an answer that
\* raised is skipped (`continue`)
RECURSIVE RosterFrom(_, _, _)
RosterFrom(answers, t, all_batters) ==
    IF t > Len(roster_types) THEN all_batters
    ELSE IF answers[t].kind = "raise"
         THEN RosterFrom(answers, t + 1, all_batters)
         ELSE RosterFrom(answers, t + 1, AddPlayers(all_batters, answers[t].val, 1))

\* list(all_batters.values()), line 177
get_team_roster(answers) == RosterFrom(answers, 1, <<>>)

\* the two seasons' answers a player lookup may rest on
FullPitcher == <<Stat(60, 200), Empty>>
FullBatter == <<Stat(90, 300), Empty>>

PitcherAnswers ==
    { Ok(FullPitcher),                       \* 30.0% over 200 batters faced
      Ok(<<Empty, Stat(20, 100)>>),          \* prior season only: 20.0%
      Ok(<<Fail, Empty>>),                   \* no usable season
      Raise }

BatterAnswers ==
    { Ok(FullBatter),                        \* 30.0% over 300 at-bats
      Ok(<<Stat(30, 100), Empty>>),          \* 30.0% over 100 at-bats
      Ok(<<Stat(45, 300), Empty>>),          \* 15.0% over 300 at-bats
      Ok(<<Stat(0, 0), Fail>>),              \* no usable season
      Raise }

TeamAnswers(t) == { Ok(Some(TeamIdOf[t])), Ok(None), Raise }
RosterAnswers(t) == { Ok(RosterOf[t]), Raise }

Healthy ==
    [pitcher |-> [p \in Pitchers |-> Ok(FullPitcher)],
     team |-> [t \in Teams |-> Ok(Some(TeamIdOf[t]))],
     roster |-> [t \in Teams |-> Ok(RosterOf[t])],
     batter |-> [b \in Batters |-> Ok(FullBatter)]]

\* the lookups e with one answer replaced
Tweaks(e) ==
    {[e EXCEPT !.pitcher[p] = a] : p \in Pitchers, a \in PitcherAnswers}
    \cup UNION {{[e EXCEPT !.team[t] = a] : a \in TeamAnswers(t)} : t \in Teams}
    \cup UNION {{[e EXCEPT !.roster[t] = a] : a \in RosterAnswers(t)} : t \in Teams}
    \cup {[e EXCEPT !.batter[b] = a] : b \in Batters, a \in BatterAnswers}

\* the lookups that differ from Healthy in at most n answers
RECURSIVE EnvsWithin(_)
EnvsWithin(n) ==
    IF n = 0 THEN {Healthy}
    ELSE LET fewer == EnvsWithin(n - 1)
         IN fewer \cup UNION {Tweaks(e) : e \in fewer}

Envs == EnvsWithin(MaxIrregular)

\* _extract_game_info: a side's probable pitcher is {id, name} or None
Pitcher(p) == [id |-> p, name |-> p]

GameOpts ==
    { [away_team |-> "T1", home_team |-> "T2", away_pitcher |-> ap, home_pitcher |-> hp] :
        ap \in {None, Some(Pitcher("P1"))}, hp \in {None, Some(Pitcher("P2"))} }

RECURSIVE SeqsUpTo(_, _)
SeqsUpTo(S, n) ==
    IF n = 0 THEN {<<>>}
    ELSE LET shorter == SeqsUpTo(S, n - 1)
         IN shorter \cup { Append(s, x) : s \in {t \in shorter : Len(t) = n - 1}, x \in S }

----------------------------------------------------------------------------
(* DataProcessor: the matchup builder                                      *)

\* a fetcher lookup as it is logged: which lookup, for whom
Call(fn, key) == [fn |-> fn, key |-> key]

\* the dict built at data_processor.py lines 73-81
Matchup(game_info, pitcher, pitcher_stats, batter, batter_stats) ==
    [game_info |-> game_info,
     pitcher_name |-> pitcher.name,
     pitcher_so_rate |-> pitcher_stats.so_rate,
     batter_name |-> batter,
     batter_so_rate |-> batter_stats.so_rate,
     batter_strikeouts |-> batter_stats.strikeouts,
     batter_at_bats |-> batter_stats.at_bats]

\* what a call of _create_pitcher_matchups comes to: the list it returns, the
\* lookups it made, and whether an exception left it
Returned(matchups, log) == [matchups |-> matchups, calls |-> log, raised |-> FALSE]
Raised(log) == [matchups |-> <<>>, calls |-> log, raised |-> TRUE]

\* Mutant of BatterLoop: a handler around each batter's turn; a
\* get_batter_stats that raises skips that batter and the loop goes on
RECURSIVE BatterLoopSkip(_, _, _, _, _, _, _, _)
BatterLoopSkip(e, game_info, pitcher, pitcher_stats, roster, k, min, acc) ==
    IF k > Len(roster)
    THEN acc
    ELSE LET batter == roster[k]
             answer == e.batter[batter]
             log == Append(acc.calls, Call("get_batter_stats", batter))
         IN IF answer.kind = "raise"
            THEN BatterLoopSkip(e, game_info, pitcher, pitcher_stats, roster,
                                k + 1, min, Returned(acc.matchups, log))
            ELSE LET batter_stats == get_batter_stats(answer.val)
                     matchups ==
                         IF batter_stats.at_bats >= min
                         THEN Append(acc.matchups,
                                     Matchup(game_info, pitcher, pitcher_stats,
                                             batter, batter_stats))
                         ELSE acc.matchups
                 IN BatterLoopSkip(e, game_info, pitcher, pitcher_stats, roster,
                                   k + 1, min, Returned(matchups, log))

\* The loop `for batter in roster` (lines 68-82) from position k on.  A
\* get_batter_stats that raises ends the loop in the handler of line 84, which
\* returns the matchups appended so far.
RECURSIVE BatterLoop(_, _, _, _, _, _, _, _)
BatterLoop(e, game_info, pitcher, pitcher_stats, roster, k, min, acc) ==
    IF k > Len(roster)
    THEN acc
    ELSE LET batter == roster[k]
             answer == e.batter[batter]
             log == Append(acc.calls, Call("get_batter_stats", batter))
         IN IF answer.kind = "raise"
            THEN Returned(acc.matchups, log)
            ELSE LET batter_stats == get_batter_stats(answer.val)
                     matchups ==
                         IF batter_stats.at_bats >= min
                         THEN Append(acc.matchups,
                                     Matchup(game_info, pitcher, pitcher_stats,
                                             batter, batter_stats))
                         ELSE acc.matchups
                 IN BatterLoop(e, game_info, pitcher, pitcher_stats, roster,
                               k + 1, min, Returned(matchups, log))

\* Mutant of _create_pitcher_matchups: no try/except around the lookups; a
\* lookup that raises leaves the function.
RECURSIVE BatterLoopNoCatch(_, _, _, _, _, _, _, _)
BatterLoopNoCatch(e, game_info, pitcher, pitcher_stats, roster, k, min, acc) ==
    IF k > Len(roster)
    THEN acc
    ELSE LET batter == roster[k]
             answer == e.batter[batter]
             log == Append(acc.calls, Call("get_batter_stats", batter))
         IN IF answer.kind = "raise"
            THEN Raised(log)
            ELSE LET batter_stats == get_batter_stats(answer.val)
                     matchups ==
                         IF batter_stats.at_bats >= min
                         THEN Append(acc.matchups,
                                     Matchup(game_info, pitcher, pitcher_stats,
                                             batter, batter_stats))
                         ELSE acc.matchups
                 IN BatterLoopNoCatch(e, game_info, pitcher, pitcher_stats, roster,
                                      k + 1, min, Returned(matchups, log))

CreatePitcherMatchupsNoCatch(e, pitcher, opposing_team, game_info, min) ==
    LET log1 == <<Call("get_pitcher_stats", pitcher.id)>>
        log2 == Append(log1, Call("get_team_id_by_name", opposing_team))
        team_id == e.team[opposing_team].val
        log3 == Append(log2, Call("get_team_roster", TeamOfId(team_id[1])))
    IN IF e.pitcher[pitcher.id].kind = "raise" THEN Raised(log1)
       ELSE IF e.team[opposing_team].kind = "raise" THEN Raised(log2)
       ELSE IF team_id = None THEN Returned(<<>>, log2)
       ELSE IF e.roster[TeamOfId(team_id[1])].kind = "raise" THEN Raised(log3)
       ELSE BatterLoopNoCatch(e, game_info, pitcher,
                              get_pitcher_stats(e.pitcher[pitcher.id].val),
                              e.roster[TeamOfId(team_id[1])].val, 1, min,
                              Returned(<<>>, log3))

\* Mutant of _create_pitcher_matchups: a bare `return` for an unknown team;
\* matchups.extend(None) then raises in process_game_matchups.
CreatePitcherMatchupsBareReturn(e, pitcher, opposing_team, game_info, min) ==
    LET log1 == <<Call("get_pitcher_stats", pitcher.id)>>
        log2 == Append(log1, Call("get_team_id_by_name", opposing_team))
        team_id == e.team[opposing_team].val
        log3 == Append(log2, Call("get_team_roster", TeamOfId(team_id[1])))
    IN IF e.pitcher[pitcher.id].kind = "raise" THEN Returned(<<>>, log1)
       ELSE IF e.team[opposing_team].kind = "raise" THEN Returned(<<>>, log2)
       ELSE IF team_id = None THEN Raised(log2)
       ELSE IF e.roster[TeamOfId(team_id[1])].kind = "raise" THEN Returned(<<>>, log3)
       ELSE BatterLoop(e, game_info, pitcher,
                       get_pitcher_stats(e.pitcher[pitcher.id].val),
                       e.roster[TeamOfId(team_id[1])].val, 1, min,
                       Returned(<<>>, log3))

\* _create_pitcher_matchups (lines 50-87).  Every lookup is inside the try of
\* line 56: a lookup that raises is caught at line 84 and the matchups built so
\* far are returned.  `if not team_id: return matchups` is line 62.
CreatePitcherMatchups(e, pitcher, opposing_team, game_info, min) ==
    LET log1 == <<Call("get_pitcher_stats", pitcher.id)>>
        log2 == Append(log1, Call("get_team_id_by_name", opposing_team))
        team_id == e.team[opposing_team].val
        log3 == Append(log2, Call("get_team_roster", TeamOfId(team_id[1])))
    IN IF e.pitcher[pitcher.id].kind = "raise" THEN Returned(<<>>, log1)
       ELSE IF e.team[opposing_team].kind = "raise" THEN Returned(<<>>, log2)
       ELSE IF team_id = None THEN Returned(<<>>, log2)
       ELSE IF e.roster[TeamOfId(team_id[1])].kind = "raise" THEN Returned(<<>>, log3)
       ELSE BatterLoop(e, game_info, pitcher,
                       get_pitcher_stats(e.pitcher[pitcher.id].val),
                       e.roster[TeamOfId(team_id[1])].val, 1, min,
                       Returned(<<>>, log3))

\* Mutant of process_game_matchups: a side is built without asking whether it
\* has a probable pitcher; pitcher['id'] of None raises inside the try.
ProcessGameMatchupsNoPitcherCheck(game, e, min) ==
    LET game_info == <<game.away_team, game.home_team>>
        away == IF game.away_pitcher = None THEN Raised(<<>>)
                ELSE CreatePitcherMatchups(e, game.away_pitcher[1], game.home_team,
                                           game_info, min)
        home == IF game.home_pitcher = None THEN Raised(away.calls)
                ELSE LET r == CreatePitcherMatchups(e, game.home_pitcher[1],
                                                    game.away_team, game_info, min)
                     IN [r EXCEPT !.calls = away.calls \o r.calls]
    IN IF away.raised THEN Returned(<<>>, away.calls)
       ELSE IF home.raised THEN Returned(away.matchups, home.calls)
       ELSE Returned(away.matchups \o home.matchups, home.calls)

\* process_game_matchups (lines 12-48): the away pitcher against the home
\* roster, then the home pitcher against the away roster, each only when the
\* side has a probable pitcher.  An exception that leaves a side is caught at
\* line 45: the matchups extended so far are returned.
ProcessGameMatchups(game, e, min) ==
    LET game_info == <<game.away_team, game.home_team>>
        away == IF game.away_pitcher # None
                THEN CreatePitcherMatchups(e, game.away_pitcher[1], game.home_team,
                                           game_info, min)
                ELSE Returned(<<>>, <<>>)
        home == IF game.home_pitcher # None
                THEN CreatePitcherMatchups(e, game.home_pitcher[1], game.away_team,
                                           game_info, min)
                ELSE Returned(<<>>, <<>>)
    IN IF away.raised THEN Returned(<<>>, away.calls)
       ELSE IF home.raised THEN Returned(away.matchups, away.calls \o home.calls)
       ELSE Returned(away.matchups \o home.matchups, away.calls \o home.calls)

----------------------------------------------------------------------------
(* pandas: a DataFrame is a sequence of rows, each with its index label ix  *)
(* and its cells (row); a Series is a sequence of labelled values.  A       *)
(* column exists when the rows carry it.                                    *)

\* pd.DataFrame(list of dicts): a RangeIndex 0..n-1
DataFrame(records) == [i \in 1..Len(records) |-> [ix |-> i - 1, row |-> records[i]]]

HasColumn(df, c) == \A i \in 1..Len(df) : c \in DOMAIN df[i].row

\* df[c] = series: the values are aligned on the index label; a row whose
\* label the series does not carry gets NaN
SeriesAt(series, ix) ==
    IF \E i \in 1..Len(series) : series[i].ix = ix
    THEN series[CHOOSE i \in 1..Len(series) : series[i].ix = ix].val
    ELSE NaN

\* pd.Series(list): a RangeIndex 0..n-1
RangeSeries(values) == [i \in 1..Len(values) |-> [ix |-> i - 1, val |-> values[i]]]

\* df.sort_values(key, ascending=False): descending, NaN last, rows of equal
\* key in their order of the frame (the sort of a short column is an insertion
\* sort)
RECURSIVE InsertDescending(_, _, _)
InsertDescending(sorted, r, key) ==
    IF sorted = <<>> THEN <<r>>
    ELSE IF ~r[key].nan /\ (Head(sorted)[key].nan \/ Head(sorted)[key].v < r[key].v)
         THEN <<r>> \o sorted
         ELSE <<Head(sorted)>> \o InsertDescending(Tail(sorted), r, key)

RECURSIVE SortDescending(_, _)
SortDescending(df, key) ==
    IF df = <<>> THEN <<>>
    ELSE InsertDescending(SortDescending(SubSeq(df, 1, Len(df) - 1), key),
                          df[Len(df)], key)

----------------------------------------------------------------------------
(* DataProcessor.filter_high_strikeout_matchups                             *)

\* a threshold is given in percent; rates are in 1/RateScale percent
\* Mutant: a rate equal to the threshold does not qualify (> for >=)
QualifiesStrict(r, t) ==
    r.row.pitcher_so_rate > t /\ r.row.batter_so_rate > t

\* the mask of data_processor.py lines 99-100 and predictor.py lines 28-29
Qualifies(r, t) ==
    r.row.pitcher_so_rate >= t /\ r.row.batter_so_rate >= t

\* lines 89-107: an empty frame is returned as it is; a missing rate column
\* raises KeyError inside the try and an empty frame is returned
filter_high_strikeout_matchups(df, t) ==
    IF df = <<>> THEN df
    ELSE IF ~(HasColumn(df, "pitcher_so_rate") /\ HasColumn(df, "batter_so_rate"))
         THEN <<>>
         ELSE SelectSeq(df, LAMBDA r : Qualifies(r, t))

----------------------------------------------------------------------------
(* StrikeoutPredictor                                                      *)

\* __init__: weights in tenths, league averages in percent
pitcher_weight == 6
batter_weight == 4
league_avg_pitcher_so == 15
league_avg_batter_so == 22

\* A confidence is a numerator over ConfDen, the common denominator of
\*   0.7 * (0.6 * (p - 15) / 15 + 0.4 * (b - 22) / 22)
\*   + 0.3 * (min(bf / 200, 1) + min(ab / 300, 1)) / 2
\* with p, b in 1/RateScale percent.
ConfDen == 44000 * RateScale
\* 0.3 * 1 / 2: what one full sample factor adds to the confidence
SampleUnit == (3 * ConfDen) \div 20

\* Mutant of RateConfidence: the pitcher's rate counts by its distance from
\* the league average, whichever side it is on
RateConfidenceDeviation(row) ==
    (7 * pitcher_weight * 440
        * Max(row.pitcher_so_rate - league_avg_pitcher_so * RateScale,
              league_avg_pitcher_so * RateScale - row.pitcher_so_rate))
        \div league_avg_pitcher_so
    + (7 * batter_weight * 440 * (row.batter_so_rate - league_avg_batter_so * RateScale))
        \div league_avg_batter_so

\* rate_confidence * 0.7 (lines 58-59, 66-69, 75)
RateConfidence(row) ==
    (7 * pitcher_weight * 440 * (row.pitcher_so_rate - league_avg_pitcher_so * RateScale))
        \div league_avg_pitcher_so
    + (7 * batter_weight * 440 * (row.batter_so_rate - league_avg_batter_so * RateScale))
        \div league_avg_batter_so

\* sample_confidence * 0.3 (lines 62-63, 71, 75)
SampleConfidence(row) ==
    Min((row.pitcher_batters_faced * SampleUnit) \div 200, SampleUnit)
    + Min((row.batter_at_bats * SampleUnit) \div 300, SampleUnit)

\* np.minimum(raw, 1.0), then np.maximum(., 0.3) (lines 74-80)
Confidence(row) ==
    Max(Min(RateConfidence(row) + SampleConfidence(row), ConfDen), (3 * ConfDen) \div 10)

\* the fallback of line 86: pd.Series([0.5] * len(df))
HalfConfidence == ConfDen \div 2

\* the column read at line 62 or 63 is missing: KeyError inside the try
ConfidenceRaises(df) ==
    ~(HasColumn(df, "pitcher_batters_faced") /\ HasColumn(df, "batter_at_bats"))

\* what a call of _calculate_confidence_score comes to: the Series it
\* returns, or an exception that leaves it
Series(series) == [raised |-> FALSE, series |-> series]
SeriesRaised == [raised |-> TRUE, series |-> <<>>]

\* Mutant of _calculate_confidence_score: no handler of its own; the KeyError
\* travels to the handler of predict_strikeouts
CalculateConfidenceScoreNoHandler(df) ==
    IF ConfidenceRaises(df)
    THEN SeriesRaised
    ELSE Series([i \in 1..Len(df) |-> [ix |-> df[i].ix, val |-> Num(Confidence(df[i].row))]])

\* _calculate_confidence_score (lines 53-86): a Series on df's index; when a
\* sample column is missing, the handler's Series of 0.5 on a fresh RangeIndex
CalculateConfidenceScore(df) ==
    IF ConfidenceRaises(df)
    THEN Series(RangeSeries([i \in 1..Len(df) |-> Num(HalfConfidence)]))
    ELSE Series([i \in 1..Len(df) |-> [ix |-> df[i].ix, val |-> Num(Confidence(df[i].row))]])

\* integer square root, for x ** 0.5 in fixed point
ISqrt(n) == CHOOSE r \in 0..ProbScale : r * r <= n /\ (r + 1) * (r + 1) > n

\* x ** 3.5 for x = q / ProbScale: NaN for a negative base (numpy), else
\* x * x * x * sqrt(x), truncated at each step
Pow35(q) ==
    IF q < 0 THEN NaN
    ELSE Num((((((q * q) \div ProbScale) * q) \div ProbScale) * ISqrt(q * ProbScale))
                \div ProbScale)

\* combined_prob (lines 93-100), over ProbScale
CombinedProb(row) ==
    ((pitcher_weight * row.pitcher_so_rate + batter_weight * row.batter_so_rate) * ProbScale)
        \div (10 * 100 * RateScale)

\* Mutant of StrikeoutProbability: the rates are not divided by 100
StrikeoutProbabilityNoPercent(row) ==
    LET combined == ((pitcher_weight * row.pitcher_so_rate
                      + batter_weight * row.batter_so_rate) * ProbScale)
                        \div (10 * RateScale)
        prob_no_strikeout == Pow35(ProbScale - combined)
    IN IF prob_no_strikeout.nan THEN NaN ELSE Num(ProbScale - prob_no_strikeout.v)

\* prob_at_least_one = 1 - (1 - combined_prob) ** 3.5 (lines 103-107)
StrikeoutProbability(row) ==
    LET prob_no_strikeout == Pow35(ProbScale - CombinedProb(row))
    IN IF prob_no_strikeout.nan THEN NaN ELSE Num(ProbScale - prob_no_strikeout.v)

\* _calculate_strikeout_probability (lines 88-113): a Series on df's index
CalculateStrikeoutProbability(df) ==
    [i \in 1..Len(df) |-> [ix |-> df[i].ix, val |-> StrikeoutProbability(df[i].row)]]

\* f"{rate:.1f}": the rate in tenths of a percent, rounded
Format1(rate) == (rate * 10 + RateScale \div 2) \div RateScale

PitcherGrade(rate) ==
    IF rate >= 30 * RateScale THEN "is an elite strikeout pitcher"
    ELSE IF rate >= 25 * RateScale THEN "has excellent strikeout rates"
    ELSE "has above-average strikeout rates"

BatterGrade(rate) ==
    IF rate >= 30 * RateScale THEN "strikes out frequently"
    ELSE IF rate >= 25 * RateScale THEN "has high strikeout rates"
    ELSE "strikes out above average"

\* one reason: the pitcher clause and the batter clause joined with " and "
Reason(row) ==
    [pitcher_name |-> row.pitcher_name,
     pitcher_clause |-> PitcherGrade(row.pitcher_so_rate),
     pitcher_rate |-> Format1(row.pitcher_so_rate),
     batter_name |-> row.batter_name,
     batter_clause |-> BatterGrade(row.batter_so_rate),
     batter_rate |-> Format1(row.batter_so_rate)]

\* _generate_prediction_reasons (lines 115-141): pd.Series(reasons), on a
\* fresh RangeIndex
GeneratePredictionReasons(df) ==
    RangeSeries([i \in 1..Len(df) |-> Num(Reason(df[i].row))])

\* the three column assignments of lines 36, 39 and 42
Scored(df, confidence, probability, reasons) ==
    [i \in 1..Len(df) |->
        [ix |-> df[i].ix,
         row |-> df[i].row,
         confidence_score |-> SeriesAt(confidence, df[i].ix),
         strikeout_probability |-> SeriesAt(probability, df[i].ix),
         prediction_reason |-> SeriesAt(reasons, df[i].ix)]]

\* the rows predict_strikeouts keeps at lines 27-30
HighRateMatchups(df, t) == SelectSeq(df, LAMBDA r : Qualifies(r, t))

\* predict_strikeouts (lines 18-51).  An empty frame, a frame with no
\* qualifying row, and an exception caught at line 49 (a missing rate or name
\* column, a helper that raises) all return an empty DataFrame.
predict_strikeouts(df, t) ==
    IF df = <<>> THEN <<>>
    ELSE IF ~(HasColumn(df, "pitcher_so_rate") /\ HasColumn(df, "batter_so_rate"))
         THEN <<>>
    ELSE LET high_rate_matchups == HighRateMatchups(df, t)
             confidence == CalculateConfidenceScore(high_rate_matchups)
         IN IF high_rate_matchups = <<>> THEN <<>>
            ELSE IF confidence.raised THEN <<>>
            ELSE IF ~(HasColumn(df, "pitcher_name") /\ HasColumn(df, "batter_name"))
                 THEN <<>>
            ELSE SortDescending(
                     Scored(high_rate_matchups, confidence.series,
                            CalculateStrikeoutProbability(high_rate_matchups),
                            GeneratePredictionReasons(high_rate_matchups)),
                     "confidence_score")

\* ranking_score is a numerator over RankDen, the common denominator of
\*   confidence_score * 0.4 + (p / 100) * 0.3 + (b / 100) * 0.3
RankDen == 10 * ConfDen

\* lines 187-191: NaN when the confidence is NaN
RankingScore(r) ==
    IF r.confidence_score.nan THEN NaN
    ELSE Num(4 * r.confidence_score.v
             + 3 * 440 * (r.row.pitcher_so_rate + r.row.batter_so_rate))

\* Mutant of DenseRank: method='min', one more than the number of rows with a
\* higher score, so that ties leave gaps
CompetitionRank(scores, s) ==
    Cardinality({i \in 1..Len(scores) : scores[i] > s}) + 1

\* Series.rank(ascending=False, method='dense') of the score s among the
\* scores: one more than the number of distinct higher scores
DenseRank(scores, s) ==
    Cardinality({scores[i] : i \in {j \in 1..Len(scores) : scores[j] > s}}) + 1

\* rank_predictions (lines 177-200).  An empty frame is returned as it is.
\* The rank of a NaN score is NaN and .astype(int) raises on it (line 194):
\* the handler of lines 198-200 returns predictions_df, the frame that came
\* in, without the two columns.  Otherwise the copy with ranking_score and
\* prediction_rank, sorted by ranking_score, highest first.
rank_predictions(df) ==
    IF df = <<>> THEN df
    ELSE IF \E i \in 1..Len(df) : RankingScore(df[i]).nan
         THEN df
         ELSE LET scores == [i \in 1..Len(df) |-> RankingScore(df[i]).v]
              IN SortDescending(
                     [i \in 1..Len(df) |->
                         [ranking_score |-> RankingScore(df[i]),
                          prediction_rank |-> DenseRank(scores, scores[i])] @@ df[i]],
                     "ranking_score")

----------------------------------------------------------------------------
(* The pipeline: app.main's loop over the day's games, the frame, the      *)
(* predictor                                                               *)

MinAtBatsOpts == {0, 200}

Init ==
    /\ env \in Envs
    /\ games \in SeqsUpTo(GameOpts, MaxGames) \ {<<>>}
    /\ min_at_bats \in MinAtBatsOpts
    /\ threshold = 20 * RateScale
    /\ pc = "loop"
    /\ gi = 1
    /\ per_game = <<>>
    /\ all_matchups = <<>>
    /\ escaped = FALSE
    /\ matchups_df = <<>>
    /\ filtered_df = <<>>
    /\ predictions = <<>>
    /\ ranked = <<>>
    /\ call = <<>>
    /\ ret = <<>>

\* app.main lines 112-114: one turn of `for game in games_data`
ProcessGame ==
    /\ pc = "loop"
    /\ gi <= Len(games)
    /\ LET r == ProcessGameMatchups(games[gi], env, min_at_bats)
       IN /\ per_game' = Append(per_game, [matchups |-> r.matchups, calls |-> r.calls])
          /\ all_matchups' = all_matchups \o r.matchups
          /\ escaped' = r.raised
          /\ pc' = IF r.raised THEN "failed" ELSE "loop"
    /\ gi' = gi + 1
    /\ UNCHANGED <<games, env, min_at_bats, threshold, matchups_df, filtered_df, predictions,
                   ranked, call, ret>>

\* app.main lines 119-124: no matchups ends the run, else the DataFrame
MakeFrame ==
    /\ pc = "loop"
    /\ gi > Len(games)
    /\ IF all_matchups = <<>>
       THEN pc' = "no_data" /\ matchups_df' = matchups_df
       ELSE pc' = "framed" /\ matchups_df' = DataFrame(all_matchups)
    /\ UNCHANGED <<games, env, min_at_bats, threshold, gi, per_game, all_matchups,
                   escaped, filtered_df, predictions, ranked, call, ret>>

\* DataProcessor.filter_high_strikeout_matchups on the frame
Filter ==
    /\ pc = "framed"
    /\ filtered_df' = filter_high_strikeout_matchups(matchups_df, threshold)
    /\ pc' = "filtered"
    /\ UNCHANGED <<games, env, min_at_bats, threshold, gi, per_game, all_matchups,
                   escaped, matchups_df, predictions, ranked, call, ret>>

\* StrikeoutPredictor.predict_strikeouts on the frame
Predict ==
    /\ pc \in {"framed", "filtered"}
    /\ predictions' = predict_strikeouts(matchups_df, threshold)
    /\ pc' = "predicted"
    /\ UNCHANGED <<games, env, min_at_bats, threshold, gi, per_game, all_matchups,
                   escaped, matchups_df, filtered_df, ranked, call, ret>>

\* StrikeoutPredictor.rank_predictions on the predictions
Rank ==
    /\ pc = "predicted"
    /\ ranked' = rank_predictions(predictions)
    /\ pc' = "ranked"
    /\ UNCHANGED <<games, env, min_at_bats, threshold, gi, per_game, all_matchups,
                   escaped, matchups_df, filtered_df, predictions, call, ret>>

Next == ProcessGame \/ MakeFrame \/ Predict \/ Rank

Spec == Init /\ [][Next]_vars

----------------------------------------------------------------------------
(* The filter and the predictor on any frame a caller may hand them        *)

\* a row of a frame that carries the sample columns
Row(p, b, pn, bn, bf, ab) ==
    [pitcher_name |-> pn, pitcher_so_rate |-> p * RateScale, pitcher_batters_faced |-> bf,
     batter_name |-> bn, batter_so_rate |-> b * RateScale, batter_at_bats |-> ab]

\* the same row as the builder emits it: no pitcher_batters_faced
BuilderRow(r) ==
    [pitcher_name |-> r.pitcher_name, pitcher_so_rate |-> r.pitcher_so_rate,
     batter_name |-> r.batter_name, batter_so_rate |-> r.batter_so_rate,
     batter_at_bats |-> r.batter_at_bats]

RowOpts ==
    { Row(30, 30, "P1", "B1", 200, 300),
      Row(20, 20, "P2", "B2", 100, 150),
      Row(100, 100, "P3", "B3", 400, 600),
      Row(15, 30, "P4", "B4", 200, 300),
      Row(30, 15, "P5", "B5", 200, 300),
      Row(25, 25, "P6", "B6", 50, 10),
      Row(0, 0, "P7", "B7", 0, 0) }

Frames ==
    LET full == SeqsUpTo(RowOpts, MaxRows)
    IN { DataFrame(s) : s \in full }
       \cup { DataFrame([i \in 1..Len(s) |-> BuilderRow(s[i])]) : s \in full }

InitFrame ==
    /\ games = <<>>
    /\ env = Healthy
    /\ min_at_bats = 200
    /\ threshold \in {0, 20 * RateScale, 25 * RateScale}
    /\ pc = "framed"
    /\ gi = 1
    /\ per_game = <<>>
    /\ all_matchups = <<>>
    /\ escaped = FALSE
    /\ matchups_df \in Frames
    /\ filtered_df = <<>>
    /\ predictions = <<>>
    /\ ranked = <<>>
    /\ call = <<>>
    /\ ret = <<>>

NextFrame == Filter \/ Predict \/ Rank

SpecFrame == InitFrame /\ [][NextFrame]_vars

----------------------------------------------------------------------------
(* Single calls: one function on inputs of its whole domain                *)

\* the pipeline is not running
NoPipeline ==
    /\ games = <<>>
    /\ env = Healthy
    /\ min_at_bats = 200
    /\ threshold = 20 * RateScale
    /\ gi = 1
    /\ per_game = <<>>
    /\ all_matchups = <<>>
    /\ escaped = FALSE
    /\ matchups_df = <<>>
    /\ filtered_df = <<>>
    /\ predictions = <<>>
    /\ ranked = <<>>

PipelineUnchanged ==
    UNCHANGED <<games, env, min_at_bats, threshold, gi, per_game, all_matchups,
                escaped, matchups_df, filtered_df, predictions, ranked>>

----------------------------------------------------------------------------
(* _calculate_confidence_score on two rows that differ in the pitcher's    *)
(* rate only                                                               *)

\* rates in 1/RateScale percent, 0.0 to 100.0
PitcherRateOpts == {0, 1, 1499, 1500, 2000, 3000, 6000, 100 * RateScale}
BatterRateOpts == {0, 2200, 5000, 100 * RateScale}
BattersFacedOpts == {0, 100, 200, 400}
AtBatsOpts == {0, 150, 300}

RatePairs ==
    { <<[Row(0, 0, "P1", "B1", bf, ab) EXCEPT !.pitcher_so_rate = p1, !.batter_so_rate = b],
        [Row(0, 0, "P1", "B1", bf, ab) EXCEPT !.pitcher_so_rate = p2, !.batter_so_rate = b]>> :
        p1 \in PitcherRateOpts, p2 \in PitcherRateOpts, b \in BatterRateOpts,
        bf \in BattersFacedOpts, ab \in AtBatsOpts }

InitConfidence ==
    /\ NoPipeline
    /\ pc = "call"
    /\ call \in { [fn |-> "_calculate_confidence_score", df |-> DataFrame(s)] : s \in RatePairs }
               \cup { [fn |-> "_calculate_confidence_score",
                       df |-> DataFrame(<<BuilderRow(s[1]), BuilderRow(s[2])>>)] : s \in RatePairs }
    /\ ret = <<>>

CalculateConfidence ==
    /\ pc = "call"
    /\ call.fn = "_calculate_confidence_score"
    /\ ret' = CalculateConfidenceScore(call.df)
    /\ pc' = "returned"
    /\ UNCHANGED call
    /\ PipelineUnchanged

NextConfidence == CalculateConfidence

SpecConfidence == InitConfidence /\ [][NextConfidence]_vars

----------------------------------------------------------------------------
(* get_team_roster on any three answers of the roster endpoint, and the    *)
(* matchups _create_pitcher_matchups builds from the roster it returns     *)

\* the players a roster may list: two batters and a pitcher
Listed == {"B1", "B2", "P2"}

\* one entry of the endpoint's 'roster' list for roster type t.  A player's
\* position type is the same wherever the player is listed; the position
\* name may differ from one roster type to the next.
PositionNames == <<"Shortstop", "Second Base", "Designated Hitter">>
Entry(b, t) ==
    [person |-> [id |-> b, fullName |-> b],
     position |-> [type |-> IF b \in Pitchers THEN "Pitcher" ELSE "Infielder",
                   name |-> IF b \in Pitchers THEN "Pitcher" ELSE PositionNames[t]]]

RosterTypeAnswers(t) ==
    {Raise} \cup { Ok([i \in 1..Len(s) |-> Entry(s[i], t)]) : s \in SeqsUpTo(Listed, MaxRosterLen) }

InitRoster ==
    /\ NoPipeline
    /\ pc = "call"
    /\ call \in { [fn |-> "get_team_roster", answers |-> <<a, f, m>>] :
                     a \in RosterTypeAnswers(1), f \in RosterTypeAnswers(2),
                     m \in RosterTypeAnswers(3) }
    /\ ret = <<>>

GetTeamRoster ==
    /\ pc = "call"
    /\ call.fn = "get_team_roster"
    /\ ret' = get_team_roster(call.answers)
    /\ pc' = "returned"
    /\ UNCHANGED call
    /\ PipelineUnchanged

\* _create_pitcher_matchups for P1 against the team whose roster was returned
CreateMatchups ==
    /\ pc = "returned"
    /\ call.fn = "get_team_roster"
    /\ all_matchups' =
          CreatePitcherMatchups(
              [env EXCEPT !.roster["T2"] = Ok([i \in 1..Len(ret) |-> ret[i].id])],
              Pitcher("P1"), "T2", <<"T1", "T2">>, min_at_bats).matchups
    /\ pc' = "built"
    /\ UNCHANGED <<games, env, min_at_bats, threshold, gi, per_game, escaped,
                   matchups_df, filtered_df, predictions, ranked, call, ret>>

NextRoster == GetTeamRoster \/ CreateMatchups

SpecRoster == InitRoster /\ [][NextRoster]_vars

----------------------------------------------------------------------------
(* get_pitcher_stats and get_batter_stats on any two seasons' answers      *)

SeasonAnswers ==
    { Fail, Empty, Stat(0, 0), Stat(0, 50), Stat(1, 3), Stat(20, 100),
      Stat(60, 200), Stat(90, 300) }

\* seasons_to_try = [season, season - 1]: the answer for the season asked
\* for, then the answer for the season before it
InitStats ==
    /\ NoPipeline
    /\ pc = "call"
    /\ call \in { [fn |-> f, seasons |-> <<current, prior>>] :
                     f \in {"get_pitcher_stats", "get_batter_stats"},
                     current \in SeasonAnswers, prior \in SeasonAnswers }
    /\ ret = <<>>

GetPitcherStats ==
    /\ pc = "call"
    /\ call.fn = "get_pitcher_stats"
    /\ ret' = [stats |-> get_pitcher_stats(call.seasons),
               asked |-> PitcherSeasonsAsked(call.seasons, 1)]
    /\ pc' = "returned"
    /\ UNCHANGED call
    /\ PipelineUnchanged

GetBatterStats ==
    /\ pc = "call"
    /\ call.fn = "get_batter_stats"
    /\ ret' = [stats |-> get_batter_stats(call.seasons),
               asked |-> BatterSeasonsAsked(call.seasons, 1)]
    /\ pc' = "returned"
    /\ UNCHANGED call
    /\ PipelineUnchanged

NextStats == GetPitcherStats \/ GetBatterStats

SpecStats == InitStats /\ [][NextStats]_vars

----------------------------------------------------------------------------
(* _create_pitcher_matchups for one side, on any answers of the batter      *)
(* lookups of a roster of three                                            *)

SideRoster == <<"B1", "B2", "B3">>

InitSide ==
    /\ NoPipeline
    /\ pc = "call"
    /\ call \in { [fn |-> "_create_pitcher_matchups",
                   fetcher |-> [Healthy EXCEPT !.roster["T2"] = Ok(SideRoster),
                                               !.batter = answers],
                   min_at_bats |-> m] :
                     answers \in [Batters -> BatterAnswers], m \in MinAtBatsOpts }
    /\ ret = <<>>

CreatePitcherSide ==
    /\ pc = "call"
    /\ call.fn = "_create_pitcher_matchups"
    /\ ret' = CreatePitcherMatchups(call.fetcher, Pitcher("P1"), "T2", <<"T1", "T2">>,
                                    call.min_at_bats)
    /\ pc' = "returned"
    /\ UNCHANGED call
    /\ PipelineUnchanged

NextSide == CreatePitcherSide

SpecSide == InitSide /\ [][NextSide]_vars

----------------------------------------------------------------------------
(* Properties: helpers                                                     *)

Range(seq) == {seq[i] : i \in 1..Len(seq)}

\* one side of a game: its probable pitcher and the team it pitches against
Side(game, which) ==
    IF which = "away"
    THEN [pitcher |-> game.away_pitcher, opposing_team |-> game.home_team]
    ELSE [pitcher |-> game.home_pitcher, opposing_team |-> game.away_team]

Other(which) == IF which = "away" THEN "home" ELSE "away"

\* what building one side alone yields under the lookups e
SideAlone(e, game, which) ==
    IF Side(game, which).pitcher = None
    THEN Returned(<<>>, <<>>)
    ELSE CreatePitcherMatchups(e, Side(game, which).pitcher[1],
                               Side(game, which).opposing_team,
                               <<game.away_team, game.home_team>>, min_at_bats)

\* the matchups of a game's result that belong to one side
Of(matchups, game, which) ==
    IF Side(game, which).pitcher = None THEN <<>>
    ELSE SelectSeq(matchups,
                   LAMBDA m : m.pitcher_name = Side(game, which).pitcher[1].name)

\* the answer the fetcher gives to a logged lookup
AnswerTo(e, c) ==
    CASE c.fn = "get_pitcher_stats" -> e.pitcher[c.key]
      [] c.fn = "get_team_id_by_name" -> e.team[c.key]
      [] c.fn = "get_team_roster" -> e.roster[c.key]
      [] c.fn = "get_batter_stats" -> e.batter[c.key]

\* the lookups with every raising one answering as in a healthy season
Healed(e) ==
    [pitcher |-> [p \in Pitchers |->
                    IF e.pitcher[p].kind = "raise" THEN Healthy.pitcher[p] ELSE e.pitcher[p]],
     team |-> [t \in Teams |->
                    IF e.team[t].kind = "raise" THEN Healthy.team[t] ELSE e.team[t]],
     roster |-> [t \in Teams |->
                    IF e.roster[t].kind = "raise" THEN Healthy.roster[t] ELSE e.roster[t]],
     batter |-> [b \in Batters |->
                    IF e.batter[b].kind = "raise" THEN Healthy.batter[b] ELSE e.batter[b]]]

\* building this side meets a lookup that raises
MeetsRaise(e, game, which) ==
    \E c \in Range(SideAlone(e, game, which).calls) : AnswerTo(e, c).kind = "raise"

Sides == {"away", "home"}

----------------------------------------------------------------------------
(* C1: the qualification filter returns exactly the rows whose pitcher rate *)
(* and batter rate both reach the threshold, in their original order; an    *)
(* empty frame or a frame with no qualifying row gives an empty result.     *)
(* The rows predict_strikeouts goes on to score are the same rows.          *)

BothReach(r) ==
    r.row.pitcher_so_rate >= threshold /\ r.row.batter_so_rate >= threshold

\* C1: the filter keeps exactly the rows whose two rates reach the threshold,
\* in order; predict_strikeouts scores exactly those rows
C1_FilterExact ==
    /\ pc = "filtered" =>
        /\ \A i \in 1..Len(filtered_df) :
              filtered_df[i] \in Range(matchups_df) /\ BothReach(filtered_df[i])
        /\ \A j \in 1..Len(matchups_df) :
              BothReach(matchups_df[j]) => matchups_df[j] \in Range(filtered_df)
        /\ \A i, k \in 1..Len(filtered_df) :
              i < k => filtered_df[i].ix < filtered_df[k].ix
    /\ pc = "predicted" =>
        {[ix |-> r.ix, row |-> r.row] : r \in Range(predictions)}
            = {r \in Range(matchups_df) : BothReach(r)}

\* a row in front is dropped and a later row is kept
C1_Witness ==
    /\ pc = "filtered"
    /\ filtered_df # <<>>
    /\ filtered_df[1].ix > 0
    /\ \E i \in 1..Len(filtered_df) : filtered_df[i].row.pitcher_so_rate = threshold

----------------------------------------------------------------------------
(* C2: a side whose probable pitcher has no sample (batters_faced = 0 in    *)
(* both seasons) contributes no matchup: every matchup's pitcher has a      *)
(* sample.                                                                  *)

C2_PitcherHasSample ==
    \A m \in Range(all_matchups) :
        get_pitcher_stats(env.pitcher[m.pitcher_name].val).batters_faced > 0

----------------------------------------------------------------------------
(* C3: for every minimum, 0 included, a batter with at_bats = 0 or below    *)
(* the minimum gives no matchup: every matchup has batter_at_bats > 0 and   *)
(* batter_at_bats >= the minimum.                                           *)

C3_BatterHasSample ==
    \A m \in Range(all_matchups) :
        m.batter_at_bats > 0 /\ m.batter_at_bats >= min_at_bats

----------------------------------------------------------------------------
(* C4: a side with no probable pitcher is skipped: no lookup is made for    *)
(* it, nothing is raised, and the game's result and lookups are those of    *)
(* the other side alone; with no pitcher on either side the game gives no   *)
(* matchup and makes no lookup.                                             *)

C4_AbsentPitcherSkipped ==
    /\ ~escaped
    /\ \A i \in 1..Len(per_game) : \A w \in Sides :
          Side(games[i], w).pitcher = None =>
              /\ per_game[i].matchups = SideAlone(env, games[i], Other(w)).matchups
              /\ per_game[i].calls = SideAlone(env, games[i], Other(w)).calls
              /\ \A c \in Range(per_game[i].calls) :
                    /\ c.fn = "get_team_id_by_name" => c.key # Side(games[i], w).opposing_team
                    /\ c.fn = "get_team_roster" => c.key # Side(games[i], w).opposing_team
    /\ \A i \in 1..Len(per_game) :
          (games[i].away_pitcher = None /\ games[i].home_pitcher = None) =>
              per_game[i] = [matchups |-> <<>>, calls |-> <<>>]

\* the away side has no pitcher and the home side gave matchups
C4_Witness ==
    \E i \in 1..Len(per_game) :
        /\ games[i].away_pitcher = None
        /\ games[i].home_pitcher # None
        /\ per_game[i].matchups # <<>>

----------------------------------------------------------------------------
(* C5: when a side's opposing team name resolves to no team id, that side   *)
(* contributes nothing and the other side contributes exactly what it       *)
(* contributes when the name does resolve.                                  *)

Resolved(e, t) == [e EXCEPT !.team[t] = Ok(Some(TeamIdOf[t]))]

\* C5: a side with an unknown opposing team gives nothing; the other side
\* gives what it gives when the name resolves
C5_UnknownTeamSkipsSide ==
    \A i \in 1..Len(per_game) : \A w \in Sides :
        LET side == Side(games[i], w)
        IN (side.pitcher # None /\ env.team[side.opposing_team] = Ok(None)) =>
              /\ Of(per_game[i].matchups, games[i], w) = <<>>
              /\ Of(per_game[i].matchups, games[i], Other(w))
                    = SideAlone(Resolved(env, side.opposing_team), games[i], Other(w)).matchups
              /\ Len(per_game[i].matchups)
                    = Len(Of(per_game[i].matchups, games[i], Other(w)))

\* the away side's opponent is unknown and the home side gave matchups
C5_Witness ==
    \E i \in 1..Len(per_game) :
        /\ games[i].away_pitcher # None
        /\ env.team[games[i].home_team] = Ok(None)
        /\ env.pitcher[games[i].away_pitcher[1].id].kind = "ok"
        /\ per_game[i].matchups # <<>>

----------------------------------------------------------------------------
(* C6: a lookup that raises while a side is built does not leave            *)
(* process_game_matchups, and every side that meets no raising lookup, of   *)
(* the same game and of every other game of the loop, gives the matchups    *)
(* it gives when no lookup raises.                                          *)

C6_FailureIsolated ==
    /\ ~escaped
    /\ pc # "failed"
    /\ \A i \in 1..Len(per_game) : \A w \in Sides :
          ~MeetsRaise(env, games[i], w) =>
              Of(per_game[i].matchups, games[i], w)
                  = SideAlone(Healed(env), games[i], w).matchups

\* the away side of the first game met a raising lookup, the home side gave
\* matchups, and a second game was processed after it
C6_Witness ==
    /\ Len(per_game) = 2
    /\ MeetsRaise(env, games[1], "away")
    /\ ~MeetsRaise(env, games[1], "home")
    /\ Of(per_game[1].matchups, games[1], "home") # <<>>
    /\ per_game[2].matchups # <<>>

----------------------------------------------------------------------------
(* C7: every row predict_strikeouts returns has a confidence_score that is  *)
(* a number between 0.3 and 1.0, for any frame, with or without the sample  *)
(* columns.                                                                 *)

C7_ConfidenceInRange ==
    pc = "predicted" =>
        \A r \in Range(predictions) :
            /\ ~r.confidence_score.nan
            /\ r.confidence_score.v >= (3 * ConfDen) \div 10
            /\ r.confidence_score.v <= ConfDen

----------------------------------------------------------------------------
(* C8: every row predict_strikeouts returns has a strikeout_probability     *)
(* that is a number between 0.0 and 1.0, for rates in 0..100.               *)

C8_ProbabilityInRange ==
    pc = "predicted" =>
        \A r \in Range(predictions) :
            /\ ~r.strikeout_probability.nan
            /\ r.strikeout_probability.v >= 0
            /\ r.strikeout_probability.v <= ProbScale

\* rows at both ends of the rate domain and one inside it were scored
C8_Witness ==
    /\ pc = "predicted"
    /\ \E r \in Range(predictions) :
          r.row.pitcher_so_rate = 100 * RateScale /\ r.strikeout_probability.v = ProbScale
    /\ \E r \in Range(predictions) :
          r.row.pitcher_so_rate = 0 /\ r.strikeout_probability.v = 0
    /\ \E r \in Range(predictions) :
          r.strikeout_probability.v > 0 /\ r.strikeout_probability.v < ProbScale

----------------------------------------------------------------------------
(* C9: a matchup built by process_game_matchups and scored by               *)
(* predict_strikeouts has confidence_score = clamp(0.7 * rate confidence +  *)
(* 0.3 * sample confidence, 0.3, 1.0) of the pitcher's and the batter's     *)
(* rates and samples; 60 strikeouts in 200 batters faced against 90         *)
(* strikeouts in 300 at-bats is present with confidence 0.7914 (to 4        *)
(* decimals).                                                               *)

\* the row of a built matchup with the pitcher's sample beside it
WithPitcherSample(row) ==
    [pitcher_so_rate |-> row.pitcher_so_rate,
     batter_so_rate |-> row.batter_so_rate,
     pitcher_batters_faced |->
         get_pitcher_stats(env.pitcher[row.pitcher_name].val).batters_faced,
     batter_at_bats |-> row.batter_at_bats]

ScenarioA(row) ==
    /\ env.pitcher[row.pitcher_name] = Ok(FullPitcher)
    /\ row.batter_strikeouts = 90 /\ row.batter_at_bats = 300

\* C9: a built and scored matchup carries the confidence of the formula, and
\* scenario A is present with confidence 0.7914
C9_BuiltConfidenceByFormula ==
    pc = "predicted" =>
        /\ \A r \in Range(predictions) :
              r.confidence_score = Num(Confidence(WithPitcherSample(r.row)))
        /\ \A r \in Range(predictions) :
              ScenarioA(r.row) =>
                  /\ ~r.confidence_score.nan
                  /\ r.confidence_score.v * 10 >= 79135 * (ConfDen \div 100000) * 10
                  /\ r.confidence_score.v * 10 < 79145 * (ConfDen \div 100000) * 10
        /\ \A m \in Range(all_matchups) :
              ScenarioA(m) => \E r \in Range(predictions) : r.row = m

----------------------------------------------------------------------------
(* C10: when computing the confidence score raises (a sample column is      *)
(* missing), predict_strikeouts returns an empty result for the batch.      *)

ScoringRaised ==
    /\ HighRateMatchups(matchups_df, threshold) # <<>>
    /\ \E i \in 1..Len(matchups_df) :
          ~({"pitcher_batters_faced", "batter_at_bats"} \subseteq DOMAIN matchups_df[i].row)

----------------------------------------------------------------------------
(* Properties of rank_predictions: helpers                                 *)

\* every row of the scored set has a confidence_score that is a number
Defined(df) == \A i \in 1..Len(df) : ~df[i].confidence_score.nan

\* the row carries the two columns rank_predictions adds
IsRanked(r) == {"ranking_score", "prediction_rank"} \subseteq DOMAIN r

\* the row without the two columns rank_predictions adds
Unranked(r) == [c \in DOMAIN r \ {"ranking_score", "prediction_rank"} |-> r[c]]

\* 0.4 * confidence_score + 0.3 * p / 100 + 0.3 * b / 100, over RankDen
ScoreByFormula(r) ==
    4 * r.confidence_score.v + 3 * 440 * r.row.pitcher_so_rate
        + 3 * 440 * r.row.batter_so_rate

----------------------------------------------------------------------------
(* C11: in the output of rank_predictions on a non-empty scored set (every  *)
(* confidence_score a number), prediction_rank is a dense rank over         *)
(* ranking_score: the highest score has rank 1, two rows have the same rank *)
(* iff they have the same ranking_score, and each next lower distinct score *)
(* has the previous rank plus one, so the ranks are exactly 1..(number of   *)
(* distinct scores).                                                        *)

C11_DenseRank ==
    (pc = "ranked" /\ predictions # <<>> /\ Defined(predictions)) =>
        /\ Len(ranked) = Len(predictions)
        /\ \A r \in Range(ranked) : IsRanked(r) /\ ~r.ranking_score.nan
        /\ \A r1, r2 \in Range(ranked) :
              /\ (r1.prediction_rank = r2.prediction_rank)
                    <=> (r1.ranking_score.v = r2.ranking_score.v)
              /\ (r1.ranking_score.v > r2.ranking_score.v)
                    => (r1.prediction_rank < r2.prediction_rank)
        /\ {r.prediction_rank : r \in Range(ranked)}
              = 1..Cardinality({r.ranking_score.v : r \in Range(ranked)})

\* three rows were ranked: two of them tie on the highest score and share
\* rank 1, the third has the next rank, 2
C11_Witness ==
    /\ pc = "ranked"
    /\ Len(ranked) = 3
    /\ \A r \in Range(ranked) : IsRanked(r)
    /\ ranked[1].ranking_score = ranked[2].ranking_score
    /\ ranked[3].ranking_score.v < ranked[2].ranking_score.v
    /\ ranked[1].prediction_rank = 1
    /\ ranked[2].prediction_rank = 1
    /\ ranked[3].prediction_rank = 2

----------------------------------------------------------------------------
(* C12: for every non-empty input, on every return path, rank_predictions   *)
(* returns the same set of rows it was given, each carrying ranking_score = *)
(* 0.4 * confidence_score + 0.3 * pitcher_so_rate / 100 + 0.3 *             *)
(* batter_so_rate / 100, ordered so that ranking_score never increases from *)
(* one row to the next; this for every output of predict_strikeouts.        *)

C12_RankedByFormula ==
    (pc = "ranked" /\ predictions # <<>>) =>
        /\ Len(ranked) = Len(predictions)
        /\ \A r \in Range(ranked) :
              /\ IsRanked(r)
              /\ Unranked(r) \in Range(predictions)
              /\ ~r.ranking_score.nan
              /\ r.ranking_score.v = ScoreByFormula(r)
        /\ \A r \in Range(predictions) : \E q \in Range(ranked) : Unranked(q) = r
        /\ \A i \in 1..(Len(ranked) - 1) :
              ranked[i].ranking_score.v >= ranked[i + 1].ranking_score.v

----------------------------------------------------------------------------
(* C13: the prediction_reason of each row predict_strikeouts returns is     *)
(* built from that same row: its pitcher and batter names, its two rates    *)
(* to one decimal and the grade clauses of those rates, joined with         *)
(* " and "; also when the threshold filter removed rows in front of or      *)
(* between the rows that remain.                                            *)

C13_ReasonOfSameRow ==
    pc \in {"predicted", "ranked"} =>
        \A r \in Range(predictions) : r.prediction_reason = Num(Reason(r.row))

----------------------------------------------------------------------------
(* C14: with the batter's rate and both sample sizes fixed, a row with a    *)
(* higher pitcher_so_rate (0 to 100) never gets a lower score from          *)
(* _calculate_confidence_score than a row with a lower pitcher_so_rate.     *)

C14_MonotoneInPitcherRate ==
    (pc = "returned" /\ call.fn = "_calculate_confidence_score") =>
        /\ ~ret.raised
        /\ \A i, j \in 1..Len(call.df) :
              LET lo == SeriesAt(ret.series, call.df[i].ix)
                  hi == SeriesAt(ret.series, call.df[j].ix)
              IN call.df[i].row.pitcher_so_rate <= call.df[j].row.pitcher_so_rate
                    => (~lo.nan /\ ~hi.nan /\ lo.v <= hi.v)

\* two rows were scored by the formula, the higher rate strictly higher and
\* neither score on a clamp
C14_Witness ==
    /\ pc = "returned"
    /\ call.fn = "_calculate_confidence_score"
    /\ ~ConfidenceRaises(call.df)
    /\ call.df[1].row.pitcher_so_rate < call.df[2].row.pitcher_so_rate
    /\ ret.series[1].val.v > (3 * ConfDen) \div 10
    /\ ret.series[1].val.v < ret.series[2].val.v
    /\ ret.series[2].val.v < ConfDen

----------------------------------------------------------------------------
(* Properties of get_team_roster: helpers                                  *)

\* roster type t was fetched and lists player b
Lists(answers, t, b) ==
    /\ answers[t].kind = "ok"
    /\ \E i \in 1..Len(answers[t].val) : answers[t].val[i].person.id = b

\* the first roster type, in the order asked, that was fetched and lists b
FirstListing(answers, b) ==
    CHOOSE t \in 1..Len(answers) :
        Lists(answers, t, b) /\ \A u \in 1..(t - 1) : ~Lists(answers, u, b)

----------------------------------------------------------------------------
(* C15: get_team_roster returns each non-pitcher player at most once, keyed *)
(* by player id; the entry kept is the one of the first roster type, in the *)
(* order active, fullSeason, 40Man, that was fetched successfully and lists *)
(* the player; a roster type whose fetch failed does not drop the players   *)
(* of the others; and a batter is in at most one matchup of the side built  *)
(* from that roster.                                                        *)

C15_RosterOncePerPlayer ==
    (pc \in {"returned", "built"} /\ call.fn = "get_team_roster") =>
        /\ \A i, j \in 1..Len(ret) : ret[i].id = ret[j].id => i = j
        /\ \A b \in Listed :
              (b \notin Pitchers /\ \E t \in 1..3 : Lists(call.answers, t, b))
                <=> (\E i \in 1..Len(ret) : ret[i].id = b)
        /\ \A i \in 1..Len(ret) :
              ret[i] = [id |-> ret[i].id, name |-> ret[i].id,
                        position |-> PositionNames[FirstListing(call.answers, ret[i].id)]]
        /\ pc = "built" =>
              \A m, n \in 1..Len(all_matchups) :
                  all_matchups[m].batter_name = all_matchups[n].batter_name => m = n

\* the active roster failed; B1 is on the fullSeason and the 40Man roster, B2
\* on the 40Man roster only, after B1; the side was built with one matchup
\* for each
C15_Witness ==
    /\ pc = "built"
    /\ call.fn = "get_team_roster"
    /\ call.answers[1] = Raise
    /\ Lists(call.answers, 2, "B1") /\ Lists(call.answers, 3, "B1")
    /\ ~Lists(call.answers, 2, "B2") /\ Lists(call.answers, 3, "B2")
    /\ Len(ret) = 2
    /\ ret[1].position = "Second Base"
    /\ ret[2].position = "Designated Hitter"
    /\ Len(all_matchups) = 2

----------------------------------------------------------------------------
(* Properties of the season lookups: helpers                               *)

\* the season's answer carries a stat line with a sample size > 0
Usable(answer) == answer.kind = "stat" /\ answer.sample > 0

\* the sample size of a returned record: batters_faced or at_bats
SampleOf(stats) ==
    IF "batters_faced" \in DOMAIN stats THEN stats.batters_faced ELSE stats.at_bats

\* the returned record is the one of this season's stat line
StatsAreOf(stats, answer) ==
    /\ SampleOf(stats) = answer.sample
    /\ stats.strikeouts = answer.strikeouts
    /\ stats.so_rate = (answer.strikeouts * 100 * RateScale) \div answer.sample

----------------------------------------------------------------------------
(* C16: get_pitcher_stats and get_batter_stats try the requested season     *)
(* first and the prior season second, and return the rate of the first of   *)
(* them whose sample size is > 0; the prior season is asked for only when   *)
(* the requested season gave no usable data or its request failed; when     *)
(* neither season gives a sample they return the zero record (so_rate 0.0,  *)
(* sample 0); any returned record with a sample > 0 has so_rate =           *)
(* strikeouts / sample * 100.                                               *)

C16_SeasonFallback ==
    (pc = "returned" /\ call.fn \in {"get_pitcher_stats", "get_batter_stats"}) =>
        LET current == call.seasons[1]
            prior == call.seasons[2]
        IN /\ Usable(current) =>
                 StatsAreOf(ret.stats, current) /\ ret.asked = <<1>>
           /\ (~Usable(current) /\ Usable(prior)) =>
                 StatsAreOf(ret.stats, prior) /\ ret.asked = <<1, 2>>
           /\ (~Usable(current) /\ ~Usable(prior)) =>
                 /\ SampleOf(ret.stats) = 0
                 /\ ret.stats.so_rate = 0
                 /\ ret.stats.strikeouts = 0
                 /\ ret.asked = <<1, 2>>
           /\ SampleOf(ret.stats) > 0 =>
                 ret.stats.so_rate
                    = (ret.stats.strikeouts * 100 * RateScale) \div SampleOf(ret.stats)

\* the requested season's request failed and the prior season's line (20
\* strikeouts over 100 batters faced) was returned: 20.0%
C16_Witness ==
    /\ pc = "returned"
    /\ call.fn = "get_pitcher_stats"
    /\ call.seasons = <<Fail, Stat(20, 100)>>
    /\ ret.asked = <<1, 2>>
    /\ ret.stats = [so_rate |-> 20 * RateScale, strikeouts |-> 20, batters_faced |-> 100]

----------------------------------------------------------------------------
(* C17: running process_game_matchups, predict_strikeouts and               *)
(* rank_predictions twice on identical games and identical lookup results   *)
(* yields the same rows in the same order with identical field values.      *)
(* This compares two runs; each stage is an operator of the model, whose    *)
(* two evaluations on one input are equal whatever the operator is, so no   *)
(* formula over the behaviours of this module separates a deterministic     *)
(* pipeline from any other.  No formula is given.                           *)

----------------------------------------------------------------------------
(* Properties of _create_pitcher_matchups: helpers                         *)

\* position in the roster of the first batter whose lookup raises
FirstRaising(e, roster) ==
    CHOOSE k \in 1..Len(roster) :
        /\ e.batter[roster[k]].kind = "raise"
        /\ \A j \in 1..(k - 1) : e.batter[roster[j]].kind # "raise"

\* the batters in front of position k that have at least min at-bats
QualifyingBefore(e, roster, k, min) ==
    SelectSeq(SubSeq(roster, 1, k - 1),
              LAMBDA b : get_batter_stats(e.batter[b].val).at_bats >= min)

----------------------------------------------------------------------------
(* C18: if the batter-stats lookup raises for the k-th batter of a side's   *)
(* roster, _create_pitcher_matchups returns exactly the matchups of the     *)
(* qualifying batters in front of position k, in roster order; what was     *)
(* built is kept, and no batter at or after position k gives a matchup      *)
(* (none of them is looked up after k).                                     *)

C18_TruncatedAtRaise ==
    (/\ pc = "returned"
     /\ call.fn = "_create_pitcher_matchups"
     /\ \E b \in Range(SideRoster) : call.fetcher.batter[b].kind = "raise") =>
        LET k == FirstRaising(call.fetcher, SideRoster)
            kept == QualifyingBefore(call.fetcher, SideRoster, k, call.min_at_bats)
        IN /\ ~ret.raised
           /\ Len(ret.matchups) = Len(kept)
           /\ \A i \in 1..Len(kept) :
                 LET batter_stats == get_batter_stats(call.fetcher.batter[kept[i]].val)
                 IN /\ ret.matchups[i].batter_name = kept[i]
                    /\ ret.matchups[i].pitcher_name = "P1"
                    /\ ret.matchups[i].batter_so_rate = batter_stats.so_rate
                    /\ ret.matchups[i].batter_at_bats = batter_stats.at_bats
           /\ SelectSeq(ret.calls, LAMBDA c : c.fn = "get_batter_stats")
                 = [j \in 1..k |-> Call("get_batter_stats", SideRoster[j])]

\* the first batter qualifies, the lookup of the second raises, the lookup
\* of the third would succeed: one matchup, the first batter's
C18_Witness ==
    /\ pc = "returned"
    /\ call.fn = "_create_pitcher_matchups"
    /\ call.min_at_bats = 200
    /\ call.fetcher.batter["B1"] = Ok(FullBatter)
    /\ call.fetcher.batter["B2"] = Raise
    /\ call.fetcher.batter["B3"] = Ok(FullBatter)
    /\ Len(ret.matchups) = 1
    /\ ret.matchups[1].batter_name = "B1"

====
